---------------------------- MODULE Spec2Model ----------------------------
(***************************************************************************)
(* Model of contacts_matcher.py: the SQLite contacts table, the partition  *)
(* replacing loader load_contacts_from_csv and the fuzzy matcher           *)
(* match_attendees_from_csv.                                               *)
(*                                                                         *)
(* Text is a sequence of one-character strings, so that strip(), lower(),  *)
(* split(), sorted() and the similarity ratio are computed and not         *)
(* assumed.  A missing CSV cell is the pandas value NaN.                   *)
(***************************************************************************)
EXTENDS Integers, Sequences, FiniteSets, TLC

(***************************************************************************)
(* Characters and Python string primitives                                 *)
(***************************************************************************)

\* the characters in code point order (the order sorted() compares by)
CodeOrder ==
    <<"\t", " ", "A", "B", "C", "D", "E", "F", "G", "H", "I", "J", "K", "L",
      "M", "N", "O", "P", "Q", "R", "S", "T", "U", "V", "W", "X", "Y", "Z",
      "_", "a", "b", "c", "d", "e", "f", "g", "h", "i", "j", "k", "l", "m",
      "n", "o", "p", "q", "r", "s", "t", "u", "v", "w", "x", "y", "z", "|">>

Ord(c) == CHOOSE i \in 1..Len(CodeOrder) : CodeOrder[i] = c

UpperChars ==
    <<"A", "B", "C", "D", "E", "F", "G", "H", "I", "J", "K", "L", "M",
      "N", "O", "P", "Q", "R", "S", "T", "U", "V", "W", "X", "Y", "Z">>

LowerChars ==
    <<"a", "b", "c", "d", "e", "f", "g", "h", "i", "j", "k", "l", "m",
      "n", "o", "p", "q", "r", "s", "t", "u", "v", "w", "x", "y", "z">>

LowerChar(c) ==
    IF c \in {"A", "B", "C", "D", "E", "F", "G", "H", "I", "J", "K", "L", "M",
              "N", "O", "P", "Q", "R", "S", "T", "U", "V", "W", "X", "Y", "Z"}
    THEN LowerChars[CHOOSE i \in 1..Len(UpperChars) : UpperChars[i] = c]
    ELSE c

\* str.lower()
Lower(s) == [i \in 1..Len(s) |-> LowerChar(s[i])]

\* the characters str.strip() and str.split() treat as whitespace
IsSpace(c) == c \in {" ", "\t"}

RECURSIVE LStripChars(_, _)
LStripChars(s, cs) ==
    IF s # <<>> /\ s[1] \in cs THEN LStripChars(Tail(s), cs) ELSE s

RECURSIVE RStripChars(_, _)
RStripChars(s, cs) ==
    IF s # <<>> /\ s[Len(s)] \in cs
    THEN RStripChars(SubSeq(s, 1, Len(s) - 1), cs)
    ELSE s

\* str.strip(chars)
StripChars(s, cs) == RStripChars(LStripChars(s, cs), cs)

\* str.strip()
Strip(s) == StripChars(s, {" ", "\t"})

\* str.split(): the maximal runs of non-whitespace characters
RECURSIVE SplitFrom(_, _, _)
SplitFrom(s, cur, acc) ==
    IF s = <<>>
    THEN IF cur = <<>> THEN acc ELSE Append(acc, cur)
    ELSE IF IsSpace(s[1])
         THEN SplitFrom(Tail(s), <<>>, IF cur = <<>> THEN acc ELSE Append(acc, cur))
         ELSE SplitFrom(Tail(s), Append(cur, s[1]), acc)

Split(s) == SplitFrom(s, <<>>, <<>>)

\* " ".join(parts)
RECURSIVE JoinSpace(_)
JoinSpace(parts) ==
    IF parts = <<>> THEN <<>>
    ELSE IF Len(parts) = 1 THEN parts[1]
    ELSE parts[1] \o <<" ">> \o JoinSpace(Tail(parts))

\* the value pandas gives a cell that is empty in the file
NaN == <<"NaN">>

\* pd.read_csv on one cell: an empty field is read as NaN
ReadCell(c) == IF c = <<>> THEN NaN ELSE c

\* Python str(): str(float("nan")) is "nan"
Str(v) == IF v = NaN THEN <<"n", "a", "n">> ELSE v

\* Series.fillna("")
FillNa(v) == IF v = NaN THEN <<>> ELSE v

normalize_string(s) == JoinSpace(Split(Lower(Strip(Str(s)))))

split_name(full_name) ==
    LET parts == Split(Strip(full_name)) IN
    IF full_name = <<>> THEN <<(<<>>), (<<>>)>>
    ELSE IF Len(parts) = 1 THEN <<parts[1], (<<>>)>>
    ELSE <<JoinSpace(SubSeq(parts, 1, Len(parts) - 1)), parts[Len(parts)]>>

\* f"{name} | {company}".strip(" |")
BuildKey(name, company) ==
    StripChars(normalize_string(name) \o <<" ", "|", " ">> \o normalize_string(company),
               {" ", "|"})

(***************************************************************************)
(* rapidfuzz: fuzz.token_sort_ratio and process.extractOne                 *)
(***************************************************************************)

\* Python's < on str: lexicographic by code point, a proper prefix is smaller
RECURSIVE StrLess(_, _)
StrLess(s, t) ==
    IF t = <<>> THEN FALSE
    ELSE IF s = <<>> THEN TRUE
    ELSE IF s[1] = t[1] THEN StrLess(Tail(s), Tail(t))
    ELSE Ord(s[1]) < Ord(t[1])

RECURSIVE InsertSorted(_, _)
InsertSorted(tok, sorted) ==
    IF sorted = <<>> THEN <<tok>>
    ELSE IF StrLess(tok, sorted[1]) THEN <<tok>> \o sorted
    ELSE <<sorted[1]>> \o InsertSorted(tok, Tail(sorted))

\* sorted(tokens)
RECURSIVE SortTokens(_)
SortTokens(toks) ==
    IF toks = <<>> THEN <<>>
    ELSE InsertSorted(toks[1], SortTokens(Tail(toks)))

Max2(a, b) == IF a >= b THEN a ELSE b

\* one row of the longest-common-subsequence table: prev is the row of the
\* previous character of s, acc the cells of this row filled so far
RECURSIVE LcsRow(_, _, _, _)
LcsRow(prev, c, t, acc) ==
    IF Len(acc) = Len(t) + 1 THEN acc
    ELSE LET j == Len(acc) IN
         LcsRow(prev, c, t,
                Append(acc, IF t[j] = c THEN prev[j] + 1
                            ELSE Max2(prev[j + 1], acc[j])))

RECURSIVE LcsFrom(_, _, _)
LcsFrom(s, t, prev) ==
    IF s = <<>> THEN prev[Len(t) + 1]
    ELSE LcsFrom(Tail(s), t, LcsRow(prev, s[1], t, <<0>>))

\* length of the longest common subsequence of s and t
Lcs(s, t) == LcsFrom(s, t, [j \in 1..(Len(t) + 1) |-> 0])

\* fuzz.ratio: 100 * (1 - indel_distance / (len1 + len2)), with
\* indel_distance = len1 + len2 - 2 * lcs.  The score is the exact
\* fraction num / den; two empty strings are fully similar.
Ratio(s, t) ==
    IF Len(s) + Len(t) = 0 THEN [num |-> 100, den |-> 1]
    ELSE [num |-> 200 * Lcs(s, t), den |-> Len(s) + Len(t)]

\* fuzz.token_sort_ratio: split on whitespace, sort the tokens, join, ratio
token_sort_ratio(s, t) ==
    Ratio(JoinSpace(SortTokens(Split(s))), JoinSpace(SortTokens(Split(t))))

\* a > b on scores
ScoreGreater(a, b) == a.num * b.den > b.num * a.den

\* a = b on scores
ScoreEqual(a, b) == a.num * b.den = b.num * a.den

(***************************************************************************)
(* Column mapping (the header loops of both functions)                     *)
(***************************************************************************)

FullNameAliases ==
    { <<"f", "u", "l", "l", "_", "n", "a", "m", "e">>,
      <<"n", "a", "m", "e">> }

FirstNameAliases ==
    { <<"f", "i", "r", "s", "t", " ", "n", "a", "m", "e">>,
      <<"f", "i", "r", "s", "t", "n", "a", "m", "e">>,
      <<"g", "i", "v", "e", "n", " ", "n", "a", "m", "e">> }

LastNameAliases ==
    { <<"l", "a", "s", "t", " ", "n", "a", "m", "e">>,
      <<"l", "a", "s", "t", "n", "a", "m", "e">>,
      <<"s", "u", "r", "n", "a", "m", "e">>,
      <<"f", "a", "m", "i", "l", "y", " ", "n", "a", "m", "e">> }

CompanyAliases ==
    { <<"c", "o", "m", "p", "a", "n", "y">>,
      <<"c", "u", "r", "r", "e", "n", "t", " ", "c", "o", "m", "p", "a", "n", "y">>,
      <<"o", "r", "g", "a", "n", "i", "z", "a", "t", "i", "o", "n">> }

TitleAliases ==
    { <<"t", "i", "t", "l", "e">>,
      <<"p", "o", "s", "i", "t", "i", "o", "n">>,
      <<"j", "o", "b", " ", "t", "i", "t", "l", "e">> }

EmailAliases ==
    { <<"e", "m", "a", "i", "l">>,
      <<"e", "m", "a", "i", "l", " ", "a", "d", "d", "r", "e", "s", "s">> }

LinkedinAliases ==
    { <<"u", "r", "l">>,
      <<"l", "i", "n", "k", "e", "d", "i", "n", " ", "u", "r", "l">>,
      <<"p", "r", "o", "f", "i", "l", "e", " ", "u", "r", "l">> }

AttNameAliases ==
    { <<"n", "a", "m", "e">>,
      <<"f", "u", "l", "l", " ", "n", "a", "m", "e">> }

AttCompanyAliases ==
    { <<"c", "o", "m", "p", "a", "n", "y">>,
      <<"o", "r", "g", "a", "n", "i", "z", "a", "t", "i", "o", "n">>,
      <<"o", "r", "g">>,
      <<"e", "m", "p", "l", "o", "y", "e", "r">> }

AttEmailAliases ==
    { <<"e", "m", "a", "i", "l">>,
      <<"e", "m", "a", "i", "l", " ", "a", "d", "d", "r", "e", "s", "s">> }

\* the column the loop leaves in col_map for one canonical field: the last
\* column whose stripped, lowercased header is one of the aliases; 0 when
\* the field is not in col_map
ColumnOf(header, aliasSet) ==
    LET hits == {i \in 1..Len(header) : Lower(Strip(header[i])) \in aliasSet} IN
    IF hits = {} THEN 0 ELSE CHOOSE i \in hits : \A j \in hits : j <= i

ContactColMap(header) ==
    [full_name    |-> ColumnOf(header, FullNameAliases),
     first_name   |-> ColumnOf(header, FirstNameAliases),
     last_name    |-> ColumnOf(header, LastNameAliases),
     company      |-> ColumnOf(header, CompanyAliases),
     title        |-> ColumnOf(header, TitleAliases),
     email        |-> ColumnOf(header, EmailAliases),
     linkedin_url |-> ColumnOf(header, LinkedinAliases)]

AttendeeColMap(header) ==
    [name    |-> ColumnOf(header, AttNameAliases),
     company |-> ColumnOf(header, AttCompanyAliases),
     email   |-> ColumnOf(header, AttEmailAliases)]

(***************************************************************************)
(* Inputs: CSV files, owners, sources, thresholds                          *)
(***************************************************************************)

\* a contacts export with a Name column; the name cell of row 2 is empty
ContactsByName ==
    [exists |-> TRUE,
     header |-> <<<<"N", "a", "m", "e">>, <<"C", "o", "m", "p", "a", "n", "y">>, <<"T", "i", "t", "l", "e">>>>,
     rows   |-> << <<<<"a", " ", "b">>, <<"x">>, <<"t">>>>,
                 <<<<>>, <<"x">>, <<"u">>>> >>]

\* a contacts export with first and last name columns; row 2 has neither
ContactsByFirstLast ==
    [exists |-> TRUE,
     header |-> <<<<" ", "F", "I", "R", "S", "T", " ", "N", "A", "M", "E">>, <<"S", "u", "r", "n", "a", "m", "e">>, <<"O", "r", "g", "a", "n", "i", "z", "a", "t", "i", "o", "n">>, <<"E", "m", "a", "i", "l">>>>,
     rows   |-> << <<<<"A">>, <<"b">>, <<"x">>, <<"e">>>>,
                 <<<<>>, <<" ">>, <<>>, <<"e">>>> >>]

\* a contacts export with a first name but no last name column
ContactsFirstOnly ==
    [exists |-> TRUE,
     header |-> <<<<"F", "i", "r", "s", "t", " ", "N", "a", "m", "e">>, <<"C", "o", "m", "p", "a", "n", "y">>>>,
     rows   |-> << <<<<"a">>, <<"x">>>> >>]

\* a path at which there is no file
MissingFile ==
    [exists |-> FALSE,
     header |-> <<>>,
     rows   |-> <<>>]

\* the paths handed to load_contacts_from_csv
ContactPaths == {"by_name.csv", "first_last.csv", "first_only.csv", "missing.csv"}

\* an attendee list with name and company; the company of row 2 is empty
AttendeesFull ==
    [exists |-> TRUE,
     header |-> <<<<"F", "u", "l", "l", " ", "N", "a", "m", "e">>, <<"O", "r", "g">>>>,
     rows   |-> << <<<<"a", " ", "b">>, <<"y">>>>,
                 <<<<"c">>, <<>>>>,
                 <<<<"b", " ", " ", "A">>, <<"x">>>> >>]

\* an attendee list without a company column; the name of row 2 is blank
AttendeesNameOnly ==
    [exists |-> TRUE,
     header |-> <<<<"n", "a", "m", "e", " ">>, <<"B", "a", "d", "g", "e">>>>,
     rows   |-> << <<<<"a", " ", "b">>, <<"k">>>>,
                 <<<<" ">>, <<"k">>>> >>]

\* an attendee list without a name column
AttendeesNoName ==
    [exists |-> TRUE,
     header |-> <<<<"C", "o", "m", "p", "a", "n", "y">>, <<"E", "m", "a", "i", "l">>>>,
     rows   |-> << <<<<"x">>, <<"e">>>> >>]

\* an attendee list with a header and no rows
AttendeesNoRows ==
    [exists |-> TRUE,
     header |-> <<<<"N", "a", "m", "e">>, <<"C", "o", "m", "p", "a", "n", "y">>>>,
     rows   |-> <<>>]

\* the paths handed to match_attendees_from_csv
AttendeePaths ==
    {"att_full.csv", "att_name_only.csv", "att_no_name.csv", "att_no_rows.csv",
     "missing.csv"}

\* the file system: what Path(csv_path).exists() and pd.read_csv find
FileAt(path) ==
    CASE path = "by_name.csv"       -> ContactsByName
      [] path = "first_last.csv"    -> ContactsByFirstLast
      [] path = "first_only.csv"    -> ContactsFirstOnly
      [] path = "att_full.csv"      -> AttendeesFull
      [] path = "att_name_only.csv" -> AttendeesNameOnly
      [] path = "att_no_name.csv"   -> AttendeesNoName
      [] path = "att_no_rows.csv"   -> AttendeesNoRows
      [] OTHER                      -> MissingFile

\* lines 89-105: col_map of the contacts file at each path, built once
col_map == [path \in ContactPaths |-> ContactColMap(FileAt(path).header)]

\* lines 223-231: col_map of the attendee file at each path
att_col_map == [path \in AttendeePaths |-> AttendeeColMap(FileAt(path).header)]

\* the (owner, source) pairs loaded: two share the owner, two the source
Partitions == {<<"Ava", "LinkedIn">>, <<"Ava", "Other">>, <<"Ben", "LinkedIn">>}

Thresholds == {0, 60, 61, 85, 100}

\* the match calls made while loads are running
ConcurrentAttendeePaths == {"att_full.csv", "missing.csv"}

\* def match_attendees_from_csv(csv_path, threshold=85)
DefaultThreshold == 85

(***************************************************************************)
(* load_contacts_from_csv: validation and row conversion                   *)
(***************************************************************************)

\* the cell of row r in column c as pd.read_csv delivers it
CellAt(csv_path, r, c) == ReadCell(FileAt(csv_path).rows[r][c])

\* lines 82-112: the checks made before the connection is opened
LoadValidate(csv_path) ==
    IF ~FileAt(csv_path).exists THEN "FileNotFoundError"
    ELSE LET cm == col_map[csv_path] IN
         IF cm.full_name = 0 /\ ~(cm.first_name # 0 /\ cm.last_name # 0)
         THEN "SchemaError"
         ELSE "ok"

\* lines 114-123 and 137: row[col_map["full_name"]] converted and stripped;
\* only the synthesized column has its missing cells filled
full_name_raw(csv_path, r) ==
    LET cm == col_map[csv_path] IN
    IF cm.full_name # 0
    THEN Strip(Str(CellAt(csv_path, r, cm.full_name)))
    ELSE Strip(Str(Strip(Str(FillNa(CellAt(csv_path, r, cm.first_name))))
                   \o <<" ">>
                   \o Strip(Str(FillNa(CellAt(csv_path, r, cm.last_name))))))

\* lines 141-148: an optional field is str(cell), or "" without the column
OptionalField(csv_path, r, c) == IF c # 0 THEN Str(CellAt(csv_path, r, c)) ELSE <<>>

\* lines 150-168: the values bound to the INSERT statement
ContactRow(csv_path, r, owner, source) ==
    LET cm == col_map[csv_path]
        fn == full_name_raw(csv_path, r)
    IN  [full_name    |-> fn,
         first_name   |-> split_name(fn)[1],
         last_name    |-> split_name(fn)[2],
         company      |-> OptionalField(csv_path, r, cm.company),
         title        |-> OptionalField(csv_path, r, cm.title),
         email        |-> OptionalField(csv_path, r, cm.email),
         linkedin_url |-> OptionalField(csv_path, r, cm.linkedin_url),
         source       |-> source,
         owner        |-> owner]

\* line 138: the row is skipped when the stripped name is empty
SkipRow(csv_path, r) == full_name_raw(csv_path, r) = <<>>

\* lines 136-170: the rows one successful load inserts, in file order
RECURSIVE InsertedFrom(_, _, _, _)
InsertedFrom(csv_path, r, owner, source) ==
    IF r > Len(FileAt(csv_path).rows) THEN <<>>
    ELSE (IF SkipRow(csv_path, r) THEN <<>>
          ELSE <<ContactRow(csv_path, r, owner, source)>>)
         \o InsertedFrom(csv_path, r + 1, owner, source)

GoodPaths == {path \in ContactPaths : LoadValidate(path) = "ok"}

\* the rows a successful load of each file into each partition inserts
inserted_rows ==
    [path \in GoodPaths |->
        [part \in Partitions |-> InsertedFrom(path, 1, part[1], part[2])]]

LoadedRows(csv_path, owner, source) == inserted_rows[csv_path][<<owner, source>>]

\* a DELETE that forgets the source: WHERE owner = ?
DeleteWhereOwner(db, owner, source) ==
    SelectSeq(db, LAMBDA c : ~(c.owner = owner))

\* DELETE FROM contacts WHERE owner = ? AND source = ?
DeleteWhere(db, owner, source) ==
    SelectSeq(db, LAMBDA c : ~(c.owner = owner /\ c.source = source))

\* the rows of one (owner, source) partition, in table order
Partition(db, owner, source) ==
    SelectSeq(db, LAMBDA c : c.owner = owner /\ c.source = source)

(***************************************************************************)
(* match_attendees_from_csv                                                *)
(***************************************************************************)

\* the checks with the attendee columns looked at before the contacts
MatchValidateColumnsFirst(db, csv_path) ==
    IF ~FileAt(csv_path).exists THEN "FileNotFoundError"
    ELSE IF att_col_map[csv_path].name = 0 THEN "SchemaError"
    ELSE IF db = <<>> THEN "EmptyStore"
    ELSE "ok"

\* lines 205-234: the order of the checks; the contacts are read, and found
\* empty, before the attendee file is parsed
MatchValidate(db, csv_path) ==
    IF ~FileAt(csv_path).exists THEN "FileNotFoundError"
    ELSE IF db = <<>> THEN "EmptyStore"
    ELSE IF att_col_map[csv_path].name = 0 THEN "SchemaError"
    ELSE "ok"

\* raw_df[col].astype(str).fillna("").str.strip(): the conversion to str
\* comes first, so fillna finds nothing to fill
AttendeeField(csv_path, r, c) ==
    IF c # 0 THEN Strip(FillNa(Str(CellAt(csv_path, r, c)))) ELSE <<>>

\* lines 236-247: one row of attendees_df
AttendeeRow(csv_path, r) ==
    LET cm == att_col_map[csv_path] IN
    [attendee_name    |-> AttendeeField(csv_path, r, cm.name),
     attendee_company |-> AttendeeField(csv_path, r, cm.company),
     attendee_email   |-> AttendeeField(csv_path, r, cm.email)]

\* lines 236-247: attendees_df of the file at each path
attendees_df ==
    [path \in AttendeePaths |->
        [r \in 1..Len(FileAt(path).rows) |-> AttendeeRow(path, r)]]

Attendees(csv_path) == attendees_df[csv_path]

\* lines 182-191: the key of a contact row and of an attendee row
build_contact_key(row) == BuildKey(row.full_name, row.company)

build_attendee_key(row) == BuildKey(row.attendee_name, row.attendee_company)

\* process.extractOne(query, choices, scorer=fuzz.token_sort_ratio): the
\* choices are scored in list order and a later choice replaces the best
\* one only when its score is strictly greater
RECURSIVE ExtractFrom(_, _, _, _)
ExtractFrom(query, choices, i, best) ==
    IF i > Len(choices) THEN best
    ELSE LET sc == token_sort_ratio(query, choices[i]) IN
         ExtractFrom(query, choices, i + 1,
                     IF best.index = 0 \/ ScoreGreater(sc, best.score)
                     THEN [key |-> choices[i], score |-> sc, index |-> i]
                     ELSE best)

\* the result has index 0 when there is no choice (extractOne returns None)
extractOne(query, choices) ==
    ExtractFrom(query, choices, 1,
                [key |-> <<>>, score |-> [num |-> 0, den |-> 1], index |-> 0])

\* line 252: contact_keys, one key per contact row, in table order
RECURSIVE ContactKeys(_)
ContactKeys(contacts) ==
    IF contacts = <<>> THEN <<>>
    ELSE <<build_contact_key(Head(contacts))>> \o ContactKeys(Tail(contacts))

\* line 254: the dict comprehension keeps, for each key, the index of the
\* last row that has it
key_to_index(keys, k) ==
    CHOOSE i \in 1..Len(keys) :
        keys[i] = k /\ \A j \in 1..Len(keys) : keys[j] = k => j <= i

\* a comparison that also drops a score equal to the threshold
BelowOrAtThreshold(score, threshold) == score.num <= threshold * score.den

\* line 274: score < threshold
BelowThreshold(score, threshold) == score.num < threshold * score.den

\* a result list built at the front
PrependMatch(acc, row) == <<row>> \o acc

\* lines 280-293: matches_export.append({...})
AppendMatch(acc, row) == Append(acc, row)

\* lines 277-292: the exported row for an attendee and its best match
MatchRow(att, contacts, keys, best) ==
    LET contact_row == contacts[key_to_index(keys, best.key)] IN
    [attendee_name    |-> att.attendee_name,
     attendee_company |-> att.attendee_company,
     attendee_email   |-> att.attendee_email,
     contact_name     |-> contact_row.full_name,
     contact_company  |-> contact_row.company,
     contact_title    |-> contact_row.title,
     contact_owner    |-> contact_row.owner,
     contact_source   |-> contact_row.source,
     contact_email    |-> contact_row.email,
     match_score      |-> best.score]

\* lines 258-293: the loop over the attendees, in file order
RECURSIVE MatchLoop(_, _, _, _, _, _)
MatchLoop(atts, contacts, keys, threshold, i, acc) ==
    IF i > Len(atts) THEN acc
    ELSE LET query_key == build_attendee_key(atts[i])
             best == extractOne(query_key, keys)
         IN  MatchLoop(atts, contacts, keys, threshold, i + 1,
                 IF query_key = <<>> THEN acc
                 ELSE IF best.index = 0 THEN acc
                 ELSE IF BelowThreshold(best.score, threshold) THEN acc
                 ELSE AppendMatch(acc, MatchRow(atts[i], contacts, keys, best)))

\* the whole call on the table contents db that its SELECT returns:
\* the exception or "ok", the returned table, and what was read
match_attendees_from_csv(db, csv_path, threshold) ==
    LET outcome == MatchValidate(db, csv_path) IN
    [outcome  |-> outcome,
     didRead  |-> FileAt(csv_path).exists,
     contacts |-> IF FileAt(csv_path).exists THEN db ELSE <<>>,
     csv_path |-> csv_path,
     threshold |-> threshold,
     table    |-> IF outcome = "ok"
                  THEN MatchLoop(Attendees(csv_path), db, ContactKeys(db), threshold, 1, <<>>)
                  ELSE <<>>]

(***************************************************************************)
(* The state machine: up to two load calls in progress and match calls in  *)
(* between their steps, each call on a connection of its own to the one    *)
(* SQLite database                                                         *)
(***************************************************************************)

\* the number of calls made in one behaviour
MaxCalls == 3

Loaders == {"L1", "L2"}

VARIABLES
    store,   \* the committed rows of the contacts table, in rowid order
    lock,    \* the loader holding SQLite's write lock, or "none"
    pc,      \* per loader: "idle", a stage of LoadOrder, or "done"
    arg,     \* per loader: owner, source and path of its call
    txn,     \* per loader: the table as the open transaction sees it
    idx,     \* per loader: the next row of df.iterrows()
    pre,     \* per loader: the rows its DELETE removed
    out,     \* per loader: "ok" or the exception of the finished call
    mres,    \* the last match call: what it read and returned
    calls    \* calls made so far

vars == <<store, lock, pc, arg, txn, idx, pre, out, mres, calls>>

\* a connection in autocommit mode: every statement is its own transaction
Autocommit == FALSE

\* get_conn(): sqlite3.connect with the default isolation_level opens a
\* transaction before the first DELETE or INSERT and keeps it, with the
\* write lock, until commit()
ImplicitTransaction == TRUE

\* the DELETE moved in front of the checks
LoadOrderDeleteFirst == <<"delete", "validate", "insert", "commit">>

\* the statements of load_contacts_from_csv in program order
LoadOrder == <<"validate", "delete", "insert", "commit">>

\* the stage that follows stage st, "done" after the last
After(st) ==
    LET k == CHOOSE i \in 1..Len(LoadOrder) : LoadOrder[i] = st IN
    IF k = Len(LoadOrder) THEN "done" ELSE LoadOrder[k + 1]

NoArg == [owner |-> "", source |-> "", csv_path |-> ""]

NoTxn == [open |-> FALSE, db |-> <<>>]

NoResult ==
    [outcome |-> "", didRead |-> FALSE, contacts |-> <<>>, csv_path |-> "",
     threshold |-> 0, table |-> <<>>]

\* what a SELECT on another connection returns: committed rows only
ReadAll == store

Init ==
    /\ store = <<>>
    /\ lock = "none"
    /\ pc = [p \in Loaders |-> "idle"]
    /\ arg = [p \in Loaders |-> NoArg]
    /\ txn = [p \in Loaders |-> NoTxn]
    /\ idx = [p \in Loaders |-> 1]
    /\ pre = [p \in Loaders |-> <<>>]
    /\ out = [p \in Loaders |-> ""]
    /\ mres = NoResult
    /\ calls = 0

\* load_contacts_from_csv(csv_path, owner, source) is called on a loader
\* whose previous call has returned or raised; the second loader takes a
\* call only while the first is in the middle of one
LoadStart(p, owner, source, csv_path) ==
    /\ pc[p] \in {"idle", "done"}
    /\ p = "L2" => pc["L1"] \notin {"idle", "done"}
    /\ calls < MaxCalls
    /\ calls' = calls + 1
    /\ pc' = [pc EXCEPT ![p] = LoadOrder[1]]
    /\ arg' = [arg EXCEPT ![p] = [owner |-> owner, source |-> source, csv_path |-> csv_path]]
    /\ idx' = [idx EXCEPT ![p] = 1]
    /\ pre' = [pre EXCEPT ![p] = <<>>]
    /\ out' = [out EXCEPT ![p] = ""]
    /\ UNCHANGED <<store, lock, txn, mres>>

\* lines 82-123: path and column checks.  An exception leaves the function;
\* a connection it leaves open is never committed and is rolled back.
LoadCheck(p) ==
    /\ pc[p] = "validate"
    /\ IF LoadValidate(arg[p].csv_path) = "ok"
       THEN /\ pc' = [pc EXCEPT ![p] = After("validate")]
            /\ out' = [out EXCEPT ![p] = IF After("validate") = "done" THEN "ok" ELSE @]
            /\ UNCHANGED <<txn, lock>>
       ELSE /\ pc' = [pc EXCEPT ![p] = "done"]
            /\ out' = [out EXCEPT ![p] = LoadValidate(arg[p].csv_path)]
            /\ txn' = [txn EXCEPT ![p] = NoTxn]
            /\ lock' = IF lock = p THEN "none" ELSE lock
    /\ UNCHANGED <<store, arg, idx, pre, mres, calls>>

\* lines 125-133: the DELETE, once the write lock is free
LoadDelete(p) ==
    /\ pc[p] = "delete"
    /\ lock = "none"
    /\ pre' = [pre EXCEPT ![p] = Partition(store, arg[p].owner, arg[p].source)]
    /\ IF ImplicitTransaction
       THEN /\ lock' = p
            /\ txn' = [txn EXCEPT ![p] =
                          [open |-> TRUE,
                           db |-> DeleteWhere(store, arg[p].owner, arg[p].source)]]
            /\ UNCHANGED store
       ELSE /\ store' = DeleteWhere(store, arg[p].owner, arg[p].source)
            /\ UNCHANGED <<lock, txn>>
    /\ pc' = [pc EXCEPT ![p] = After("delete")]
    /\ idx' = [idx EXCEPT ![p] = 1]
    /\ UNCHANGED <<arg, out, mres, calls>>

\* lines 129-132: the write lock stays taken for the whole busy timeout and
\* the DELETE raises sqlite3.OperationalError
LoadBusy(p) ==
    /\ pc[p] = "delete"
    /\ lock \notin {"none", p}
    /\ pc' = [pc EXCEPT ![p] = "done"]
    /\ out' = [out EXCEPT ![p] = "OperationalError"]
    /\ UNCHANGED <<store, lock, arg, txn, idx, pre, mres, calls>>

\* lines 136-170: one turn of the loop, or its exit
LoadInsert(p) ==
    /\ pc[p] = "insert"
    /\ LET f == arg[p].csv_path IN
       IF idx[p] > Len(FileAt(f).rows)
       THEN /\ pc' = [pc EXCEPT ![p] = After("insert")]
            /\ UNCHANGED <<store, txn, idx>>
       ELSE /\ idx' = [idx EXCEPT ![p] = @ + 1]
            /\ UNCHANGED pc
            /\ IF SkipRow(f, idx[p])
               THEN UNCHANGED <<store, txn>>
               ELSE LET row == ContactRow(f, idx[p], arg[p].owner, arg[p].source) IN
                    IF txn[p].open
                    THEN /\ txn' = [txn EXCEPT ![p].db = Append(@, row)]
                         /\ UNCHANGED store
                    ELSE /\ lock = "none"
                         /\ store' = Append(store, row)
                         /\ UNCHANGED txn
    /\ UNCHANGED <<lock, arg, pre, out, mres, calls>>

\* lines 172-173: commit() publishes the transaction and frees the lock
LoadCommit(p) ==
    /\ pc[p] = "commit"
    /\ IF txn[p].open
       THEN /\ store' = txn[p].db
            /\ lock' = "none"
            /\ txn' = [txn EXCEPT ![p] = NoTxn]
       ELSE UNCHANGED <<store, lock, txn>>
    /\ pc' = [pc EXCEPT ![p] = After("commit")]
    /\ out' = [out EXCEPT ![p] = IF After("commit") = "done" THEN "ok" ELSE @]
    /\ UNCHANGED <<arg, idx, pre, mres, calls>>

\* a match call that keeps its attendees in the contacts table
TableAfterMatchPersist(db, csv_path) ==
    IF ~FileAt(csv_path).exists \/ att_col_map[csv_path].name = 0 THEN db
    ELSE db \o [r \in 1..Len(FileAt(csv_path).rows) |->
                  [full_name    |-> AttendeeRow(csv_path, r).attendee_name,
                   first_name   |-> <<>>,
                   last_name    |-> <<>>,
                   company      |-> AttendeeRow(csv_path, r).attendee_company,
                   title        |-> <<>>,
                   email        |-> AttendeeRow(csv_path, r).attendee_email,
                   linkedin_url |-> <<>>,
                   source       |-> "attendees",
                   owner        |-> ""]]

\* the contacts table after a match call: the call runs one SELECT and
\* closes its connection, nothing of the attendees is written
TableAfterMatch(db, csv_path) == db

\* match_attendees_from_csv(csv_path, threshold): a single SELECT reads the
\* table, the rest of the call works on what it read
MatchCall(csv_path, threshold) ==
    /\ calls < MaxCalls
    /\ calls' = calls + 1
    /\ UNCHANGED <<lock, pc, arg, txn, idx, pre, out>>
    /\ mres' = match_attendees_from_csv(ReadAll, csv_path, threshold)
    /\ store' = TableAfterMatch(store, csv_path)

Next ==
    \/ \E p \in Loaders, part \in Partitions, csv_path \in ContactPaths :
          LoadStart(p, part[1], part[2], csv_path)
    \/ \E p \in Loaders : LoadCheck(p)
    \/ \E p \in Loaders : LoadDelete(p)
    \/ \E p \in Loaders : LoadBusy(p)
    \/ \E p \in Loaders : LoadInsert(p)
    \/ \E p \in Loaders : LoadCommit(p)
    \/ \E csv_path \in ConcurrentAttendeePaths : MatchCall(csv_path, DefaultThreshold)

Spec == Init /\ [][Next]_vars

(***************************************************************************)
(* Matching on a table that earlier loads have filled                      *)
(***************************************************************************)

\* the number of partitions loaded before the match calls
MaxParts == 2

\* the number of match calls made on one table; a call leaves the table as
\* it was, so a later call starts where the first one did
MaxMatches == 1

\* the tables that up to n successful loads, each of a partition not
\* loaded before, leave behind
RECURSIVE TablesOf(_)
TablesOf(n) ==
    IF n = 0 THEN {<<>>}
    ELSE LET prev == TablesOf(n - 1) IN
         prev \cup UNION {
            {db \o LoadedRows(path, part[1], part[2]) :
                part \in {q \in Partitions : Partition(db, q[1], q[2]) = <<>>},
                path \in GoodPaths} : db \in prev}

LoadedTables == TablesOf(MaxParts)

InitMatch ==
    /\ store \in LoadedTables
    /\ lock = "none"
    /\ pc = [p \in Loaders |-> "idle"]
    /\ arg = [p \in Loaders |-> NoArg]
    /\ txn = [p \in Loaders |-> NoTxn]
    /\ idx = [p \in Loaders |-> 1]
    /\ pre = [p \in Loaders |-> <<>>]
    /\ out = [p \in Loaders |-> ""]
    /\ mres = NoResult
    /\ calls = 0

NextMatch ==
    /\ calls < MaxMatches
    /\ \E csv_path \in AttendeePaths, threshold \in Thresholds :
          MatchCall(csv_path, threshold)

SpecMatch == InitMatch /\ [][NextMatch]_vars

(***************************************************************************)
(* Properties                                                              *)
(***************************************************************************)

\* a step of the load call running on loader p
LoadStep(p) ==
    LoadCheck(p) \/ LoadDelete(p) \/ LoadBusy(p) \/ LoadInsert(p) \/ LoadCommit(p)

\* a match call made while loads are running: the one step that counts a
\* call and moves no load
MatchStep == calls' = calls + 1 /\ pc' = pc

\* the full name of row r as the column mapping resolves it: the name
\* cell, or the trimmed first and last name joined by one space; an empty
\* cell is an empty text
ResolvedName(csv_path, r) ==
    LET cm == col_map[csv_path] IN
    IF cm.full_name # 0
    THEN Strip(FillNa(CellAt(csv_path, r, cm.full_name)))
    ELSE Strip(Strip(FillNa(CellAt(csv_path, r, cm.first_name)))
               \o <<" ">>
               \o Strip(FillNa(CellAt(csv_path, r, cm.last_name))))

\* the rows of the file whose resolved full name is not empty, converted
\* to contact rows, in file order
RECURSIVE NamedFrom(_, _, _, _)
NamedFrom(csv_path, r, owner, source) ==
    IF r > Len(FileAt(csv_path).rows) THEN <<>>
    ELSE (IF ResolvedName(csv_path, r) = <<>> THEN <<>>
          ELSE <<ContactRow(csv_path, r, owner, source)>>)
         \o NamedFrom(csv_path, r + 1, owner, source)

named_rows ==
    [path \in GoodPaths |->
        [part \in Partitions |-> NamedFrom(path, 1, part[1], part[2])]]

NamedRows(csv_path, owner, source) == named_rows[csv_path][<<owner, source>>]

\* C1: when a load of (owner, source) commits, the rows of that partition
\* are exactly the rows of the file whose resolved full name is not empty,
\* one stored row for each, in file order, whatever the partition held.
C1_ReplacedByNamedRows ==
    [][\A p \in Loaders :
          LoadCommit(p) =>
              Partition(store', arg[p].owner, arg[p].source)
                  = NamedRows(arg[p].csv_path, arg[p].owner, arg[p].source)]_vars

\* What the code does where C1 fails: the partition holds the rows the
\* loop did not skip, which include the rows whose name cell is empty.
LoadReplacesByInsertedRows ==
    [][\A p \in Loaders :
          LoadCommit(p) =>
              Partition(store', arg[p].owner, arg[p].source)
                  = LoadedRows(arg[p].csv_path, arg[p].owner, arg[p].source)]_vars

\* C2: no step of a load of (owner, source) changes the rows of a
\* partition that differs from it in owner, in source, or in both.
C2_OtherPartitionsUntouched ==
    [][\A p \in Loaders :
          LoadStep(p) =>
              \A part \in Partitions :
                  part # <<arg[p].owner, arg[p].source>> =>
                      Partition(store', part[1], part[2])
                          = Partition(store, part[1], part[2])]_vars

\* C2 witness: a load of a partition has committed after a partition of
\* the same owner and a partition of the same source were filled, and the
\* rows of both are in the table.
C2_Witness ==
    \E p \in Loaders :
        /\ pc[p] = "done" /\ out[p] = "ok"
        /\ Len(store) > 0
        /\ store[Len(store)].owner = arg[p].owner
        /\ store[Len(store)].source = arg[p].source
        /\ \E i \in 1..Len(store) :
              store[i].owner = arg[p].owner /\ store[i].source # arg[p].source
        /\ \E i \in 1..Len(store) :
              store[i].owner # arg[p].owner /\ store[i].source = arg[p].source

\* C3: a load that fails on a missing file or on unresolvable name columns
\* raises before its DELETE has run, and the table after the failure is
\* the table before it.
C3_FailureBeforeDelete ==
    [][\A p \in Loaders :
          (LoadCheck(p) /\ out'[p] \in {"FileNotFoundError", "SchemaError"}) =>
              /\ ~txn[p].open
              /\ lock # p
              /\ pre[p] = <<>>
              /\ store' = store]_vars

\* C3 witness: a load has failed on its columns and on its path, and the
\* partition it was to replace still holds its rows.
C3_Witness ==
    \E p \in Loaders :
        /\ pc[p] = "done"
        /\ out[p] \in {"FileNotFoundError", "SchemaError"}
        /\ Partition(store, arg[p].owner, arg[p].source) # <<>>

\* loader p has run its DELETE and has not committed yet
Replacing(p) == pc[p] \in {"insert", "commit"}

\* C4: the contacts a match call reads hold, for a partition that a load
\* is replacing at that moment, either all the rows the load deleted or
\* all the rows the load inserts, never a part of them.
C4_MatchReadsWholePartition ==
    [][MatchStep /\ mres'.didRead =>
          \A p \in Loaders :
              Replacing(p) =>
                  Partition(mres'.contacts, arg[p].owner, arg[p].source)
                      \in {pre[p],
                           LoadedRows(arg[p].csv_path, arg[p].owner, arg[p].source)}]_vars

\* C4 witness: a match call has read the table while a load that deleted
\* rows has inserted one of its two rows; it read the deleted rows.
C4_Witness ==
    \E p \in Loaders :
        /\ pc[p] = "insert"
        /\ txn[p].open
        /\ pre[p] # <<>>
        /\ Partition(txn[p].db, arg[p].owner, arg[p].source) # <<>>
        /\ Partition(txn[p].db, arg[p].owner, arg[p].source)
              # LoadedRows(arg[p].csv_path, arg[p].owner, arg[p].source)
        /\ mres.didRead
        /\ mres.contacts = store
        /\ Partition(mres.contacts, arg[p].owner, arg[p].source) = pre[p]

\* both loaders have finished a load of the same partition, each either
\* committed or refused by the write lock, and one of them committed
BothLoaded ==
    /\ pc["L1"] = "done" /\ pc["L2"] = "done"
    /\ arg["L1"].owner = arg["L2"].owner
    /\ arg["L1"].source = arg["L2"].source
    /\ out["L1"] \in {"ok", "OperationalError"}
    /\ out["L2"] \in {"ok", "OperationalError"}
    /\ "ok" \in {out["L1"], out["L2"]}

\* C5: once two loads of the same partition that ran at the same time have
\* both finished, the partition holds exactly the rows with a non-empty
\* name of one of the two files.
C5_SerializedNamedRows ==
    BothLoaded =>
        \E p \in Loaders :
            Partition(store, arg[p].owner, arg[p].source)
                = NamedRows(arg[p].csv_path, arg[p].owner, arg[p].source)

\* What holds of C5 on the code: the partition holds the rows that the
\* loop of one of the two loads, and of one that committed, inserted.
SerializedReplace ==
    BothLoaded =>
        \E p \in Loaders :
            /\ out[p] = "ok"
            /\ Partition(store, arg[p].owner, arg[p].source)
                  = LoadedRows(arg[p].csv_path, arg[p].owner, arg[p].source)

\* C9: a match call, whether it returns a table or raises, leaves the
\* stored contact rows as they were.
C9_MatchPersistsNothing ==
    [][MatchStep => store' = store]_vars

\* C9 witness: a match call has returned rows for attendees of its file
\* and the table is the one it read.
C9_Witness ==
    /\ mres.outcome = "ok"
    /\ mres.table # <<>>
    /\ store = mres.contacts

\* the attendees of the last match call and what identifies their rows
MatchAtts == Attendees(mres.csv_path)

AttendeePart(row) ==
    [attendee_name    |-> row.attendee_name,
     attendee_company |-> row.attendee_company,
     attendee_email   |-> row.attendee_email]

\* the rows of the returned table that belong to attendee i
RowsOf(i) == {k \in 1..Len(mres.table) : AttendeePart(mres.table[k]) = MatchAtts[i]}

\* the score of attendee i against contact row c of the table read
PairScore(i, c) ==
    token_sort_ratio(build_attendee_key(MatchAtts[i]), build_contact_key(mres.contacts[c]))

\* score >= threshold
AtLeast(score, threshold) == score.num >= threshold * score.den

\* contact row c has the highest score for attendee i
IsBest(i, c) ==
    \A d \in 1..Len(mres.contacts) : ~ScoreGreater(PairScore(i, d), PairScore(i, c))

\* C6: for every attendee with a non-empty key a row is returned exactly
\* when the highest score over the contacts is at least the threshold; a
\* highest score equal to the threshold is in, one below it is out, and
\* match_score of the row is that highest score.
C6_ThresholdInclusive ==
    mres.outcome = "ok" =>
        \A i \in 1..Len(MatchAtts) :
            build_attendee_key(MatchAtts[i]) # <<>> =>
                /\ (RowsOf(i) # {}) <=>
                       (\E c \in 1..Len(mres.contacts) :
                           IsBest(i, c) /\ AtLeast(PairScore(i, c), mres.threshold))
                /\ \A k \in RowsOf(i) :
                       \E c \in 1..Len(mres.contacts) :
                           IsBest(i, c) /\ ScoreEqual(mres.table[k].match_score, PairScore(i, c))

\* C6 witness: an attendee whose highest score is exactly the threshold
\* has a row, at a threshold above 0.
C6_Witness ==
    /\ mres.outcome = "ok"
    /\ mres.threshold > 0
    /\ \E i \in 1..Len(MatchAtts) :
          /\ RowsOf(i) # {}
          /\ \E c \in 1..Len(mres.contacts) :
                /\ IsBest(i, c)
                /\ ScoreEqual(PairScore(i, c), [num |-> mres.threshold, den |-> 1])

RECURSIVE IsSubsequence(_, _)
IsSubsequence(a, b) ==
    IF a = <<>> THEN TRUE
    ELSE IF b = <<>> THEN FALSE
    ELSE IF a[1] = b[1] THEN IsSubsequence(Tail(a), Tail(b))
    ELSE IsSubsequence(a, Tail(b))

\* C7: the attendees of the returned rows are a subsequence of the
\* attendee file: at most one row for an attendee, in file order.
C7_AttendeeOrder ==
    mres.outcome = "ok" =>
        IsSubsequence([k \in 1..Len(mres.table) |-> AttendeePart(mres.table[k])], MatchAtts)

\* C7 witness: two attendees have rows, an attendee between them has none,
\* and the later row has the higher score.
C7_Witness ==
    /\ mres.outcome = "ok"
    /\ Len(mres.table) = 2
    /\ Len(MatchAtts) = 3
    /\ AttendeePart(mres.table[1]) = MatchAtts[1]
    /\ AttendeePart(mres.table[2]) = MatchAtts[3]
    /\ ScoreGreater(mres.table[2].match_score, mres.table[1].match_score)

\* the attendee file of the last match call exists
MatchFileExists == mres.csv_path # "" /\ FileAt(mres.csv_path).exists

NoMatchIsNotAnError ==
    /\ MatchFileExists
    /\ store # <<>>
    /\ Len(MatchAtts) > 0
    /\ mres.outcome = "ok"
    /\ mres.table = <<>>

ContactPart(c) ==
    [contact_name    |-> c.full_name,
     contact_company |-> c.company,
     contact_title   |-> c.title,
     contact_owner   |-> c.owner,
     contact_source  |-> c.source,
     contact_email   |-> c.email]

RowContactPart(row) ==
    [contact_name    |-> row.contact_name,
     contact_company |-> row.contact_company,
     contact_title   |-> row.contact_title,
     contact_owner   |-> row.contact_owner,
     contact_source  |-> row.contact_source,
     contact_email   |-> row.contact_email]

\* C10: the contact fields of a returned row are those of the first
\* contact row, in table order, that has the highest score for the
\* attendee, also when several rows have the same key.
C10_FirstBestRow ==
    mres.outcome = "ok" =>
        \A i \in 1..Len(MatchAtts) : \A k \in RowsOf(i) :
            \E c \in 1..Len(mres.contacts) :
                /\ IsBest(i, c)
                /\ \A d \in 1..(c - 1) : ~IsBest(i, d)
                /\ RowContactPart(mres.table[k]) = ContactPart(mres.contacts[c])

\* What the code does where C10 fails: the row is the last contact row
\* that has the key of the first row with the highest score.
LastRowOfFirstBestKey ==
    mres.outcome = "ok" =>
        \A i \in 1..Len(MatchAtts) : \A k \in RowsOf(i) :
            \E c \in 1..Len(mres.contacts) :
                /\ IsBest(i, c)
                /\ \A d \in 1..(c - 1) : ~IsBest(i, d)
                /\ \E e \in 1..Len(mres.contacts) :
                      /\ build_contact_key(mres.contacts[e]) = build_contact_key(mres.contacts[c])
                      /\ \A g \in (e + 1)..Len(mres.contacts) :
                            build_contact_key(mres.contacts[g]) # build_contact_key(mres.contacts[c])
                      /\ RowContactPart(mres.table[k]) = ContactPart(mres.contacts[e])

=============================================================================
